---------------------------- MODULE Spec2Model ----------------------------
(***************************************************************************)
(* Hands of Rhythm: the App state machine (App.tsx), the JazzCanvas        *)
(* session effect with its p5 sketch (components/JazzCanvas) and the       *)
(* HandTracker service (services/handTracking).                            *)
(*                                                                         *)
(* One set of variables carries several specifications:                    *)
(*   SpecSession   App + React commit + HandTracker life cycle             *)
(*   SpecTracker   the HandTracker class driven through its public API     *)
(*   SpecOverlay   p.draw: beat flash and note triggers                    *)
(*   SpecLiquid    p.draw, genre JAZZ: LiquidParticle.update               *)
(*   SpecVortex    p.draw, genre FUNK: VortexParticle.update               *)
(*   SpecNeural    p.draw, genre ELECTRONIC: drawNeuralGrid                *)
(*   SpecHands     onHandResults / getHandOpenness                         *)
(*   SpecParticles p.setup, p.windowResized, p.draw: the particle array    *)
(*   SpecVelocity  onHandResults and p.draw: hand velocities               *)
(*   SpecDrag      p.draw, genre JAZZ: a moving hand next to particles      *)
(***************************************************************************)
EXTENDS Integers, Sequences, FiniteSets, TLC

VARIABLES
    \* ---- App.tsx, JazzCanvas effect, HandTracker ----
    appState,       \* useState<AppState>
    currentGenre,   \* useState<GameGenre>
    loadGenre,      \* audioEngine.loadGenre promise: "none" | "pending"
    rendered,       \* <<appState, genre>> of the last React commit
    effectOf,       \* session whose effect cleanup is registered, 0 if none
    nStarts,        \* number of startExperience calls since page load
    trackers,       \* session -> HandTracker object and its collaborators
    p5Instance,     \* session -> "none" | "live" | "removed"
    recorder,       \* mediaRecorderRef: "none" | "recording" | "inactive"
    isRecording,    \* useState<boolean>
    \* ---- JazzCanvas refs written by the audio callbacks, read by p.draw ----
    beatFlash,      \* beatFlashRef.current, in units of 1/FlashScale
    noteTriggers,   \* noteTriggersRef.current: sequence of {x, y, life}
    \* ---- observers of p.draw ----
    ticksSinceBeat, \* draws since the last beat event, -1 before the first
    spliced,        \* <<age, drawn>> of every trigger removed so far
    drawLog,        \* what the last p.draw read and did, in order
    \* ---- the p5 sketch ----
    globalHue,      \* the sketch's globalHue, in 1/10 degree
    handState,      \* handStateRef.current
    prevLeftHand,   \* p.draw's previous hand positions, <<>> for null
    prevRightHand,
    lastResults,    \* argument of the last onHandResults call
    audioCalls,     \* updateRightHand / updateLeftHand calls it made
    particles,      \* the sketch's particle array
    surface,        \* <<p.width, p.height>>
    frameCount,     \* p.frameCount
    vortexAngle,    \* the sketch's twist accumulator, in 1/10000 radian
    \* ---- observers of the sketch ----
    connections,    \* the line and packet draw calls of the last drawNeuralGrid
    initCalls       \* number of initParticles calls so far

sessionVars == <<appState, currentGenre, loadGenre, rendered, effectOf,
                 nStarts, trackers, p5Instance, recorder, isRecording>>

overlayVars == <<beatFlash, noteTriggers, ticksSinceBeat, spliced, drawLog, globalHue>>

handVars == <<handState, prevLeftHand, prevRightHand, lastResults, audioCalls>>

particleVars == <<particles, surface, frameCount, vortexAngle, connections, initCalls>>

\* everything outside the App / HandTracker life cycle
sketchVars == <<overlayVars, handVars, particleVars>>

vars == <<sessionVars, sketchVars>>

-----------------------------------------------------------------------------
(* Bounds *)

\* startExperience calls explored per page load
MaxSessions == 2

\* calls of HandTracker.stop / frames delivered, explored by SpecTracker
MaxStops == 3

MaxFrames == 2

\* note triggers alive at once / draws followed after a beat
MaxTriggers == 2

MaxQuietTicks == 46

\* SpecLiquid, SpecHands: surface size (in 1/100 pixel); draws explored
SurfaceWidth == 200

SurfaceHeight == 150

MaxLiquidTicks == 4

\* SpecVortex: draws explored
MaxVortexTicks == 8

\* SpecNeural: draws explored, and the surface in 1/100 px
MaxNeuralTicks == 3
NeuralWidth == 30000
NeuralHeight == 20000

\* SpecParticles: window resizes and draws explored
MaxResizes == 2

\* SpecVelocity: draws explored
MaxVelocityTicks == 3

\* SpecDrag: draws explored, and the surface in 1/100 px
MaxDragTicks == 2
DragWidth == 60000
DragHeight == 20000
MaxParticleTicks == 3

-----------------------------------------------------------------------------
(* types.ts *)

GameGenre == {"JAZZ", "ELECTRONIC", "FUNK"}

AppState == {"IDLE", "LOADING", "RUNNING", "ERROR"}

Sessions == 1..MaxSessions

-----------------------------------------------------------------------------
(* services/handTracking: class HandTracker.                               *)
(* hands / camera / isActive are the object's fields.  startPromise is the *)
(* promise returned by start(); stream is videoElement.srcObject as set by *)
(* the Camera utility once getUserMedia delivers.  closeCalls,             *)
(* cameraStopCalls, trackStopCalls and sendCalls count the calls made on   *)
(* the landmark model, the camera utility and the capture tracks, and     *)
(* stopCalls the calls of stop() itself.                                   *)

NoTracker ==
    [made |-> FALSE, hands |-> "null", camera |-> "null", isActive |-> FALSE,
     startPromise |-> "none", stream |-> "none", debugMsg |-> "none",
     closeCalls |-> 0, cameraStopCalls |-> 0, trackStopCalls |-> 0,
     sendCalls |-> 0, stopCalls |-> 0]

\* constructor: new Hands(...), setOptions, onResults
NewHandTracker ==
    [NoTracker EXCEPT !.made = TRUE, !.hands = "open",
                      !.debugMsg = "Initializing"]

\* start(videoElement): fields set, Camera created, camera.start() awaited
TrackerStart(t) ==
    [t EXCEPT !.isActive = TRUE, !.camera = "set", !.startPromise = "pending"]

\* stop(): isActive cleared; if a camera exists the tracks of the source
\* stream are stopped and camera.stop() is called; the model is closed and
\* the field nulled.  this.camera is never reset.
TrackerStop(t) ==
    LET hasStream == t.camera = "set" /\ t.stream # "none"
        t1 == [t EXCEPT !.isActive = FALSE,
                        !.stopCalls = @ + 1,
                        !.trackStopCalls = IF hasStream THEN @ + 1 ELSE @,
                        !.stream = IF hasStream THEN "stopped" ELSE @,
                        !.cameraStopCalls = IF t.camera = "set" THEN @ + 1 ELSE @]
    IN  IF t1.hands # "null"
        THEN [t1 EXCEPT !.closeCalls = @ + 1, !.hands = "null"]
        ELSE t1

\* Camera onFrame: hands.send only while active and the model exists
TrackerOnFrame(t) ==
    IF t.isActive /\ t.hands # "null"
    THEN [t EXCEPT !.sendCalls = @ + 1]
    ELSE t

\* getUserMedia delivers: the Camera utility sets video.srcObject and the
\* start promise fulfils; JazzCanvas clears the debug message.
TrackerAcquire(t) ==
    [t EXCEPT !.stream = "live", !.startPromise = "fulfilled", !.debugMsg = ""]

\* getUserMedia fails: camera.start() rejects
TrackerFail(t) ==
    [t EXCEPT !.startPromise = "rejected"]

-----------------------------------------------------------------------------
(* JazzCanvas refs as created by useRef *)

\* beatFlashRef = useRef(0), noteTriggersRef = useRef([])
OverlayIdle ==
    /\ beatFlash = 0
    /\ noteTriggers = <<>>
    /\ ticksSinceBeat = -1
    /\ spliced = {}
    /\ globalHue = 0
    /\ drawLog = [ran |-> FALSE, hands |-> <<<<>>, <<>>>>,
                  vels |-> <<<<0, 0>>, <<0, 0>>>>,
                  fill |-> 0, hue |-> 0, steps |-> <<>>]

\* null hand position / vector
Null == <<>>

\* handStateRef = useRef({left: null, right: null, ..., leftSqueeze: 0, rightSqueeze: 0})
NoHands ==
    [left |-> Null, right |-> Null, isLeftPinching |-> FALSE,
     isRightPinching |-> FALSE, leftSqueeze |-> 0, rightSqueeze |-> 0]

\* let prevLeftHand = null, prevRightHand = null
HandsIdle ==
    /\ handState = NoHands
    /\ prevLeftHand = Null
    /\ prevRightHand = Null
    /\ lastResults = [defined |-> FALSE, hands |-> <<>>]
    /\ audioCalls = <<>>

\* let particles = [] before p.setup
ParticlesIdle ==
    /\ particles = <<>>
    /\ surface = <<0, 0>>
    /\ frameCount = 0
    /\ vortexAngle = 0
    /\ connections = <<>>
    /\ initCalls = 0

SketchIdle == OverlayIdle /\ HandsIdle /\ ParticlesIdle

-----------------------------------------------------------------------------
(* App.tsx and the JazzCanvas session effect *)

AppInit ==
    /\ appState = "IDLE"
    /\ currentGenre = "JAZZ"
    /\ loadGenre = "none"
    /\ rendered = <<"IDLE", "JAZZ">>
    /\ effectOf = 0
    /\ nStarts = 0
    /\ trackers = [s \in Sessions |-> NoTracker]
    /\ p5Instance = [s \in Sessions |-> "none"]
    /\ recorder = "none"
    /\ isRecording = FALSE

\* JazzCanvas is part of the tree while RUNNING or LOADING
Mounted(st) == st \in {"RUNNING", "LOADING"}

\* The effect's cleanup: handTrackerRef.current?.stop(); p5InstanceRef.current?.remove()
EffectCleanup(s, trk) ==
    [trk EXCEPT ![s] = TrackerStop(trk[s])]

\* A React commit of <<st, g>>: the registered cleanup runs (dependencies
\* changed or component unmounted), then the effect body runs if the
\* component is mounted; the body returns early unless st is RUNNING, else
\* it creates and starts the HandTracker and creates the p5 sketch.
CommitTo(st, g) ==
    LET trk1 == IF effectOf # 0 THEN EffectCleanup(effectOf, trackers) ELSE trackers
        p51  == IF effectOf # 0 THEN [p5Instance EXCEPT ![effectOf] = "removed"]
                ELSE p5Instance
        runs == Mounted(st) /\ st = "RUNNING"
    IN  /\ rendered' = <<st, g>>
        /\ effectOf' = IF runs THEN nStarts ELSE 0
        /\ trackers' = IF runs
                       THEN [trk1 EXCEPT ![nStarts] = TrackerStart(NewHandTracker)]
                       ELSE trk1
        /\ p5Instance' = IF runs THEN [p51 EXCEPT ![nStarts] = "live"] ELSE p51

\* stopVideoRecording
StopVideoRecording ==
    IF recorder = "recording"
    THEN recorder' = "inactive" /\ isRecording' = FALSE
    ELSE UNCHANGED <<recorder, isRecording>>

\* startExperience(genre), up to the await.  The genre buttons belong to the
\* start screen, rendered while IDLE; a click's update is committed at once.
startExperience(genre) ==
    /\ UNCHANGED sketchVars
    /\ rendered = <<appState, currentGenre>>
    /\ appState = "IDLE"
    /\ nStarts < MaxSessions
    /\ currentGenre' = genre
    /\ appState' = "LOADING"
    /\ loadGenre' = "pending"
    /\ nStarts' = nStarts + 1
    /\ CommitTo("LOADING", genre)
    /\ UNCHANGED <<recorder, isRecording>>

\* startExperience after the await: loadGenre fulfilled
LoadResolved ==
    /\ UNCHANGED sketchVars
    /\ loadGenre = "pending"
    /\ loadGenre' = "none"
    /\ appState' = "RUNNING"
    /\ UNCHANGED <<currentGenre, rendered, effectOf, nStarts, trackers,
                   p5Instance, recorder, isRecording>>

\* startExperience catch: loadGenre rejected
LoadRejected ==
    /\ UNCHANGED sketchVars
    /\ loadGenre = "pending"
    /\ loadGenre' = "none"
    /\ appState' = "ERROR"
    /\ UNCHANGED <<currentGenre, rendered, effectOf, nStarts, trackers,
                   p5Instance, recorder, isRecording>>

\* handleReturnToMenu: the MENU button is rendered while RUNNING
handleReturnToMenu ==
    /\ UNCHANGED sketchVars
    /\ rendered = <<appState, currentGenre>>
    /\ appState = "RUNNING"
    /\ StopVideoRecording
    /\ appState' = "IDLE"
    /\ CommitTo("IDLE", currentGenre)
    /\ UNCHANGED <<currentGenre, loadGenre, nStarts>>

\* handleToggleRecord: the REC button is rendered while RUNNING; recording
\* needs the sketch's canvas element
handleToggleRecord ==
    /\ UNCHANGED sketchVars
    /\ rendered = <<appState, currentGenre>>
    /\ appState = "RUNNING"
    /\ IF ~isRecording
       THEN IF effectOf # 0 /\ p5Instance[effectOf] = "live"
            THEN recorder' = "recording" /\ isRecording' = TRUE
            ELSE UNCHANGED <<recorder, isRecording>>
       ELSE StopVideoRecording
    /\ UNCHANGED <<appState, currentGenre, loadGenre, rendered, effectOf,
                   nStarts, trackers, p5Instance>>

\* React commits a state set from a promise callback
Commit ==
    /\ UNCHANGED sketchVars
    /\ rendered # <<appState, currentGenre>>
    /\ CommitTo(appState, currentGenre)
    /\ UNCHANGED <<appState, currentGenre, loadGenre, nStarts, recorder, isRecording>>

\* handTracker.start(...).then(() => setDebugMsg(""))
CameraStartResolved(s) ==
    /\ UNCHANGED sketchVars
    /\ trackers[s].startPromise = "pending"
    /\ trackers' = [trackers EXCEPT ![s] = TrackerAcquire(@)]
    /\ UNCHANGED <<appState, currentGenre, loadGenre, rendered, effectOf,
                   nStarts, p5Instance, recorder, isRecording>>

\* handTracker.start(...).catch(err => setAppState(AppState.ERROR))
CameraStartRejected(s) ==
    /\ UNCHANGED sketchVars
    /\ trackers[s].startPromise = "pending"
    /\ trackers' = [trackers EXCEPT ![s] = TrackerFail(@)]
    /\ appState' = "ERROR"
    /\ UNCHANGED <<currentGenre, loadGenre, rendered, effectOf, nStarts,
                   p5Instance, recorder, isRecording>>

\* The Camera utility's frame loop calls onFrame while its stream is live
CameraFrame(s) ==
    /\ UNCHANGED sketchVars
    /\ trackers[s].stream = "live"
    /\ trackers[s].sendCalls < MaxFrames
    /\ trackers[s].isActive
    /\ trackers' = [trackers EXCEPT ![s] = TrackerOnFrame(@)]
    /\ UNCHANGED <<appState, currentGenre, loadGenre, rendered, effectOf,
                   nStarts, p5Instance, recorder, isRecording>>

\* The Reload button of the error screen: window.location.reload()
Reload ==
    /\ UNCHANGED sketchVars
    /\ rendered = <<appState, currentGenre>>
    /\ appState = "ERROR"
    /\ appState' = "IDLE"
    /\ currentGenre' = "JAZZ"
    /\ loadGenre' = "none"
    /\ rendered' = <<"IDLE", "JAZZ">>
    /\ effectOf' = 0
    /\ nStarts' = 0
    /\ trackers' = [s \in Sessions |-> NoTracker]
    /\ p5Instance' = [s \in Sessions |-> "none"]
    /\ recorder' = "none"
    /\ isRecording' = FALSE

NextSession ==
    \/ \E genre \in GameGenre : startExperience(genre)
    \/ LoadResolved
    \/ LoadRejected
    \/ handleReturnToMenu
    \/ handleToggleRecord
    \/ Commit
    \/ \E s \in Sessions : CameraStartResolved(s)
    \/ \E s \in Sessions : CameraStartRejected(s)
    \/ \E s \in Sessions : CameraFrame(s)
    \/ Reload

InitSession == AppInit /\ SketchIdle

SpecSession == InitSession /\ [][NextSession]_vars

-----------------------------------------------------------------------------
(* The HandTracker class on its own: every tracker is constructed, and its *)
(* public methods and the Camera utility's callbacks run in any order.     *)

InitTracker ==
    /\ SketchIdle
    /\ appState = "RUNNING"
    /\ currentGenre = "JAZZ"
    /\ loadGenre = "none"
    /\ rendered = <<"RUNNING", "JAZZ">>
    /\ effectOf = 0
    /\ nStarts = 0
    /\ trackers = [s \in Sessions |-> NewHandTracker]
    /\ p5Instance = [s \in Sessions |-> "none"]
    /\ recorder = "none"
    /\ isRecording = FALSE

appVars == <<appState, currentGenre, loadGenre, rendered, effectOf, nStarts,
             p5Instance, recorder, isRecording>>

\* tracker.start(videoElement)
StartCall(s) ==
    /\ UNCHANGED sketchVars
    /\ trackers[s].startPromise = "none"
    /\ trackers' = [trackers EXCEPT ![s] = TrackerStart(@)]
    /\ UNCHANGED appVars

\* tracker.stop()
StopCall(s) ==
    /\ UNCHANGED sketchVars
    /\ trackers[s].stopCalls < MaxStops
    /\ trackers' = [trackers EXCEPT ![s] = TrackerStop(@)]
    /\ UNCHANGED appVars

\* getUserMedia delivers the stream
StreamAcquired(s) ==
    /\ UNCHANGED sketchVars
    /\ trackers[s].startPromise = "pending"
    /\ trackers' = [trackers EXCEPT ![s] = TrackerAcquire(@)]
    /\ UNCHANGED appVars

\* getUserMedia fails
StreamRefused(s) ==
    /\ UNCHANGED sketchVars
    /\ trackers[s].startPromise = "pending"
    /\ trackers' = [trackers EXCEPT ![s] = TrackerFail(@)]
    /\ UNCHANGED appVars

\* one frame of the Camera utility's loop
FrameCall(s) ==
    /\ UNCHANGED sketchVars
    /\ trackers[s].stream = "live"
    /\ trackers[s].sendCalls < MaxFrames
    /\ trackers[s].isActive
    /\ trackers' = [trackers EXCEPT ![s] = TrackerOnFrame(@)]
    /\ UNCHANGED appVars

NextTracker ==
    \/ \E s \in Sessions : StartCall(s)
    \/ \E s \in Sessions : StopCall(s)
    \/ \E s \in Sessions : StreamAcquired(s)
    \/ \E s \in Sessions : StreamRefused(s)
    \/ \E s \in Sessions : FrameCall(s)

SpecTracker == InitTracker /\ [][NextTracker]_vars

-----------------------------------------------------------------------------
(* Claims: session life cycle *)

\* C1: once a session has been left and its cleanup has run (the sketch is
\* removed), its hand tracker is stopped: inactive, no live capture track,
\* landmark model closed -- also when start() was still pending at cleanup.
C1_LeftSessionIsStopped ==
    \A s \in Sessions :
        p5Instance[s] = "removed" =>
            /\ ~trackers[s].isActive
            /\ trackers[s].hands = "null"
            /\ trackers[s].stream # "live"

\* C2: a call of stop() on a tracker that was already stopped is a no-op:
\* it makes no further stop/close call and leaves every field as it was.
C2_SecondStopIsNoOp ==
    [][\A s \in Sessions :
          (trackers[s].stopCalls >= 1 /\ trackers'[s].stopCalls = trackers[s].stopCalls + 1)
              => [trackers'[s] EXCEPT !.stopCalls = 0] = [trackers[s] EXCEPT !.stopCalls = 0]]_vars

\* C3: ERROR is final for the page: no step takes the app state from ERROR
\* to LOADING or RUNNING (only a reload leaves ERROR, to IDLE).
C3_ErrorIsFinal ==
    [][appState = "ERROR" => appState' \notin {"LOADING", "RUNNING"}]_vars

-----------------------------------------------------------------------------
(* p.draw: hand velocity.  Lengths are in 1/100 pixel, normalized hand     *)
(* coordinates in 1/1000.                                                  *)

\* quotient rounded toward zero
TDiv(a, b) == IF a >= 0 THEN a \div b ELSE -((-a) \div b)

RECURSIVE SqrtBetween(_, _, _)
SqrtBetween(n, lo, hi) ==
    IF lo >= hi THEN lo
    ELSE LET mid == (lo + hi + 1) \div 2
         IN  IF mid * mid <= n THEN SqrtBetween(n, mid, hi)
             ELSE SqrtBetween(n, lo, mid - 1)

\* Math.sqrt, rounded down to the unit
Sqrt(n) == SqrtBetween(n, 0, 46340)

VAdd(a, b) == <<a[1] + b[1], a[2] + b[2]>>

VSub(a, b) == <<a[1] - b[1], a[2] - b[2]>>

\* p5.Vector.mag
Mag(v) == Sqrt(v[1] * v[1] + v[2] * v[2])

\* p.map(v, a, b, c, d), unclamped
Map(v, a, b, c, d) == c + TDiv((d - c) * (v - a), b - a)

\* p.createVector(h.x * p.width, h.y * p.height), or null
HandVec(h) ==
    IF h = Null THEN Null
    ELSE <<TDiv(h[1] * surface[1], 1000), TDiv(h[2] * surface[2], 1000)>>

\* (vec && prev) ? p5.Vector.sub(vec, prev) : p.createVector(0, 0)
HandVel(vec, prev) ==
    IF vec # Null /\ prev # Null THEN VSub(vec, prev) ELSE <<0, 0>>

\* p.draw step 0: velocities of this tick
HandVels ==
    [left  |-> HandVel(HandVec(handState.left), prevLeftHand),
     right |-> HandVel(HandVec(handState.right), prevRightHand)]

StorePrevHandsKeeping ==
    /\ prevLeftHand' = IF handState.left # Null THEN HandVec(handState.left)
                       ELSE prevLeftHand
    /\ prevRightHand' = IF handState.right # Null THEN HandVec(handState.right)
                        ELSE prevRightHand

\* p.draw step 0: "Update prev for next frame"
StorePrevHands ==
    /\ prevLeftHand' = HandVec(handState.left)
    /\ prevRightHand' = HandVec(handState.right)

-----------------------------------------------------------------------------
(* p.draw: event overlay (beat flash, note triggers)                       *)

\* beatFlash is held in fixed point, 1.0 = FlashScale
FlashScale == 10^8

FlashOne == FlashScale

\* the 0.01 threshold of p.draw
FlashThreshold == FlashScale \div 100

\* beatFlashRef.current *= 0.9
Decay(f) == (f * 9) \div 10

DrawFlashAlways(f) == Decay(f)

\* p.draw, "Flash background on beat": the flash decays only in the branch
\* taken while it exceeds the threshold
DrawFlash(f) ==
    IF f > FlashThreshold THEN Decay(f) ELSE f

\* which fill p.draw uses: TRUE for the flash fill, FALSE for the plain one
FlashFill(f) == f > FlashThreshold

\* A trigger's life is an IEEE double.  It is held exactly as <<q, r>>,
\* standing for (q * D + r) * 2^-57 where D = 7205759403792794 is the
\* double 0.05 in units of 2^-57 (so |r| stays far below D).  1.0 = 2^57 =
\* 20 * D - 8.
LifeOne == [q |-> 20, r |-> -8]

\* D modulo 32, all that rounding to a grid of at most 16 units needs
StepMod32 == 26

\* spacing of the doubles around q*D + r, in units of 2^-57:
\* 2^56 = 10*D - 4, 2^55 = 5*D - 2, 2^54 = 2.5*D - 1, 2^53 = 1.25*D - 0.5
Grid(q, r) ==
    IF q > 10 \/ (q = 10 /\ r >= -4) THEN 16
    ELSE IF q > 5 \/ (q = 5 /\ r >= -2) THEN 8
    ELSE IF q >= 3 THEN 4
    ELSE IF q >= 2 THEN 2
    ELSE 1

\* round q*D + r to the nearest double, ties to even; the result's r
RoundNearestEven(q, r) ==
    LET g   == Grid(q, r)
        rem == (q * StepMod32 + r) % g
        low == (q * StepMod32 + r) % (2 * g)
    IN  IF 2 * rem < g THEN r - rem
        ELSE IF 2 * rem > g THEN r + g - rem
        ELSE IF low = rem THEN r - rem ELSE r + g - rem

\* t.life -= 0.05
LifeStep(l) ==
    [q |-> l.q - 1, r |-> RoundNearestEven(l.q - 1, l.r)]

\* t.life <= 0
LifeSpent(l) == l.q < 0 \/ (l.q = 0 /\ l.r <= 0)

\* noteTriggersRef.current.push({x, y, life: 1.0}); age and drawn observe
\* the ticks since creation and the rings drawn for the trigger
NewTrigger(x, y) ==
    [x |-> x, y |-> y, life |-> LifeOne, age |-> 0, drawn |-> 0]

RemoveAt(seq, i) ==
    SubSeq(seq, 1, i - 1) \o SubSeq(seq, i + 1, Len(seq))

\* one pass of the loop body on element i: ring drawn, life decremented,
\* element spliced out once its life is spent
TriggerBody(acc, i) ==
    LET t  == acc.arr[i]
        t1 == [t EXCEPT !.life = LifeStep(@), !.drawn = @ + 1]
    IN  IF LifeSpent(t1.life)
        THEN [arr |-> RemoveAt(acc.arr, i),
              gone |-> acc.gone \cup {<<t1.age, t1.drawn>>}]
        ELSE [arr |-> [acc.arr EXCEPT ![i] = t1], gone |-> acc.gone]

RECURSIVE LoopDown(_, _)
\* for (i = length - 1; i >= 0; i--)
LoopDown(acc, i) ==
    IF i < 1 THEN acc ELSE LoopDown(TriggerBody(acc, i), i - 1)

RECURSIVE LoopUp(_, _)
LoopUp(acc, i) ==
    IF i > Len(acc.arr) THEN acc ELSE LoopUp(TriggerBody(acc, i), i + 1)

RenderTriggersForward(arr) ==
    LoopUp([arr |-> arr, gone |-> {}], 1)

\* p.draw, "Render Triggers": the loop runs from the last element down
RenderTriggers(arr) ==
    LoopDown([arr |-> arr, gone |-> {}], Len(arr))

\* position a note event carries (normalized, in tenths); the loop reads
\* it only to place the ring
NotePositions == {<<2, 7>>}

\* audioEngine.onBeat callback
Beat ==
    /\ beatFlash' = FlashOne
    /\ ticksSinceBeat' = 0
    /\ UNCHANGED <<noteTriggers, spliced, drawLog, globalHue>>
    /\ UNCHANGED <<sessionVars, handVars, particleVars>>

\* audioEngine.onNoteTriggered callback
Note(x, y) ==
    /\ Len(noteTriggers) < MaxTriggers
    /\ noteTriggers' = Append(noteTriggers, NewTrigger(x, y))
    /\ UNCHANGED <<beatFlash, ticksSinceBeat, spliced, drawLog, globalHue>>
    /\ UNCHANGED <<sessionVars, handVars, particleVars>>

\* (p.frameCount * 0.1) % 360
HueOf(fc) == fc % 3600

DrawStepsHueLast ==
    <<"handVelocity", "storePrev", "flashUpdate", "fillColor", "rect",
      "triggers", "genre", "globalHue">>

\* the statements of p.draw in program order: hand velocities, previous
\* positions, p.fill chosen from the flash, the flash decay of the same
\* branch, p.rect, globalHue, the trigger loop, the genre's draw function
DrawSteps ==
    <<"handVelocity", "storePrev", "fillColor", "flashUpdate", "rect",
      "globalHue", "triggers", "genre">>

\* one statement of p.draw on the values it reads and writes: the flash,
\* the hue, the flash level given to p.fill (0 for the plain fill) and the
\* hue the genre's draw function works with
DrawStep(name, st, fc) ==
    IF name = "fillColor"
    THEN [st EXCEPT !.fill = IF FlashFill(st.flash) THEN st.flash ELSE 0]
    ELSE IF name = "flashUpdate" THEN [st EXCEPT !.flash = DrawFlash(st.flash)]
    ELSE IF name = "globalHue" THEN [st EXCEPT !.hue = HueOf(fc)]
    ELSE IF name = "genre" THEN [st EXCEPT !.genreHue = st.hue]
    ELSE st

RECURSIVE RunDraw(_, _, _, _)
RunDraw(steps, k, st, fc) ==
    IF k > Len(steps) THEN st
    ELSE RunDraw(steps, k + 1, DrawStep(steps[k], st, fc), fc)

\* p.draw's steps common to every genre (hand snapshot, flash fill and
\* decay, hue, trigger loop); frameCount' is the p.frameCount of this draw
DrawOverlay ==
    /\ LET end == RunDraw(DrawSteps, 1,
                          [flash |-> beatFlash, hue |-> globalHue,
                           fill |-> 0, genreHue |-> globalHue], frameCount')
       IN  /\ beatFlash' = end.flash
           /\ globalHue' = end.hue
           /\ drawLog' = [ran |-> TRUE,
                          hands |-> <<handState.left, handState.right>>,
                          vels |-> <<HandVels.left, HandVels.right>>,
                          fill |-> end.fill, hue |-> end.genreHue,
                          steps |-> DrawSteps]
    /\ ticksSinceBeat' = IF ticksSinceBeat >= 0 THEN ticksSinceBeat + 1 ELSE -1
    /\ LET aged == [i \in DOMAIN noteTriggers |->
                        [noteTriggers[i] EXCEPT !.age = @ + 1]]
           out  == RenderTriggers(aged)
       IN  /\ noteTriggers' = out.arr
           /\ spliced' = spliced \cup out.gone

\* p.draw with no hand and no particle followed
Draw ==
    /\ ticksSinceBeat < MaxQuietTicks
    /\ UNCHANGED <<sessionVars, handVars, particleVars>>
    /\ DrawOverlay

\* a running session: the effect has subscribed the callbacks and created
\* the sketch
SessionRunning(genre) ==
    /\ appState = "RUNNING"
    /\ currentGenre = genre
    /\ loadGenre = "none"
    /\ rendered = <<"RUNNING", genre>>
    /\ effectOf = 1
    /\ nStarts = 1
    /\ trackers = [s \in Sessions |->
                      IF s = 1 THEN TrackerStart(NewHandTracker) ELSE NoTracker]
    /\ p5Instance = [s \in Sessions |-> IF s = 1 THEN "live" ELSE "none"]
    /\ recorder = "none"
    /\ isRecording = FALSE

InitOverlay == SessionRunning("JAZZ") /\ SketchIdle

NextOverlay ==
    \/ Beat
    \/ \E pos \in NotePositions : Note(pos[1], pos[2])
    \/ Draw

SpecOverlay == InitOverlay /\ [][NextOverlay]_vars

-----------------------------------------------------------------------------
(* Claims: event overlay *)

RECURSIVE Pow09(_)
\* 0.9^n in the units of beatFlash
Pow09(n) == IF n = 0 THEN FlashOne ELSE Decay(Pow09(n - 1))

Min(a, b) == IF a < b THEN a ELSE b

\* C4 as stated: n draws after a beat the flash is 0.9^n, for every n
C4_FlashIsPowerForEveryN ==
    ticksSinceBeat >= 0 => beatFlash = Pow09(ticksSinceBeat)

\* C4 amended: n draws after a beat the flash is 0.9^n up to n = 44 and
\* stays at 0.9^44 from then on; it is at or above 0.01 through 43 draws
\* and below 0.01 from 44 draws on
C4_FlashDecay ==
    ticksSinceBeat >= 0 =>
        /\ beatFlash = Pow09(Min(ticksSinceBeat, 44))
        /\ ticksSinceBeat <= 43 => beatFlash >= FlashThreshold
        /\ ticksSinceBeat >= 44 => beatFlash < FlashThreshold

C4_Witness ==
    ticksSinceBeat = 45 /\ beatFlash = Pow09(44) /\ ~FlashFill(beatFlash)

\* C5: a trigger is drawn on each tick after its creation, its life falling
\* by 0.05 per tick; it stays in the collection with positive life through
\* 19 ticks and is spliced out during its 20th, whatever else is appended
\* or removed meanwhile
C5_TriggerLifecycle ==
    /\ \A i \in DOMAIN noteTriggers :
          LET t == noteTriggers[i]
          IN  /\ t.drawn = t.age
              /\ t.age <= 19
              /\ t.life.q = 20 - t.age
              /\ ~LifeSpent(t.life)
    /\ spliced \subseteq {<<20, 20>>}

C5_Witness ==
    /\ spliced = {<<20, 20>>}
    /\ Len(noteTriggers) = 1
    /\ noteTriggers[1].age = 19

-----------------------------------------------------------------------------
(* LiquidParticle *)

\* p5.Vector.fromAngle(angle).mult(0.5) for the angles the noise field may
\* give: multiples of 45 degrees
FlowForces ==
    {<<50, 0>>, <<35, 35>>, <<0, 50>>, <<-35, 35>>,
     <<-50, 0>>, <<-35, -35>>, <<0, -50>>, <<35, -35>>}

\* p5.Vector.random2D().mult(1.5)
Turbulences == {<<150, 0>>, <<-106, 106>>}

\* this.vel.limit(max)
Limit(v, max) ==
    IF v[1] * v[1] + v[2] * v[2] > max * max
    THEN <<TDiv(v[1] * max, Mag(v)), TDiv(v[2] * max, Mag(v))>>
    ELSE v

\* this.vel.mult(0.94)
Damp(v) == <<TDiv(v[1] * 94, 100), TDiv(v[2] * 94, 100)>>

\* dragForce: hVel normalized, times map(d, 0, 300, 4, 0) * (velMag * 0.05)
Drag(d, hVel) ==
    LET velMag == Mag(hVel)
        k == TDiv(Map(d, 0, 30000, 400, 0) * velMag * 5, 10000)
    IN  <<TDiv(TDiv(hVel[1] * 1000, velMag) * k, 1000),
          TDiv(TDiv(hVel[2] * 1000, velMag) * k, 1000)>>

\* interact(h, hVel): the force a hand adds to the acceleration
Interact(pos, h, hVel, turb) ==
    IF h = Null THEN <<0, 0>>
    ELSE LET dir == VSub(HandVec(h), pos)
             d   == Mag(dir)
         IN  IF d < 40000
             THEN LET str  == Map(d, 0, 40000, 150, 0)
                      pull == IF d = 0 THEN <<0, 0>>
                              ELSE <<TDiv(dir[1] * str, d), TDiv(dir[2] * str, d)>>
                  IN  IF Mag(hVel) > 500
                      THEN VAdd(VAdd(pull, Drag(d, hVel)), turb)
                      ELSE pull
             ELSE <<0, 0>>

\* the dragForce interact(h, hVel) adds, zero when it adds none
DragAdded(pos, h, hVel) ==
    IF h = Null THEN <<0, 0>>
    ELSE LET d == Mag(VSub(HandVec(h), pos))
         IN  IF d < 40000 /\ Mag(hVel) > 500 THEN Drag(d, hVel) ELSE <<0, 0>>

WrapAxisUpperOnly(c, prev, size) ==
    IF c > size THEN <<0, 0>> ELSE <<c, prev>>

\* "Wrap around", one axis: <<pos, prevPos>> after the two tests
WrapAxis(c, prev, size) ==
    IF c > size THEN <<0, 0>>
    ELSE IF c < 0 THEN <<size, size>>
    ELSE <<c, prev>>

\* new LiquidParticle(p), given the values p.random drew; drag observes
\* the drag forces the left and the right hand added in the last update
NewLiquidParticle(x, y, maxSpeed) ==
    [pos |-> <<x, y>>, prevPos |-> <<x, y>>, vel |-> <<0, 0>>,
     acc |-> <<0, 0>>, maxSpeed |-> maxSpeed,
     drag |-> <<<<0, 0>>, <<0, 0>>>>]

\* LiquidParticle.update
LiquidUpdate(pt, hands, handVels, flow, turb) ==
    LET acc1 == VAdd(pt.acc, flow)
        acc2 == VAdd(acc1, Interact(pt.pos, hands.left, handVels.left, turb))
        acc3 == VAdd(acc2, Interact(pt.pos, hands.right, handVels.right, turb))
        vel1 == Damp(Limit(VAdd(pt.vel, acc3), pt.maxSpeed))
        pos1 == VAdd(pt.pos, vel1)
        wx   == WrapAxis(pos1[1], pt.pos[1], surface[1])
        wy   == WrapAxis(pos1[2], pt.pos[2], surface[2])
    IN  [pt EXCEPT !.pos = <<wx[1], wy[1]>>, !.prevPos = <<wx[2], wy[2]>>,
                   !.vel = vel1, !.acc = <<0, 0>>,
                   !.drag = <<DragAdded(pt.pos, hands.left, handVels.left),
                              DragAdded(pt.pos, hands.right, handVels.right)>>]

\* p.draw with genre JAZZ: drawEtherealLiquid updates every particle
DrawLiquid ==
    /\ frameCount < MaxLiquidTicks
    /\ frameCount' = frameCount + 1
    /\ StorePrevHands
    /\ DrawOverlay
    /\ \E flows \in [DOMAIN particles -> FlowForces], turb \in Turbulences :
          particles' = [i \in DOMAIN particles |->
                           LiquidUpdate(particles[i], handState, HandVels,
                                        flows[i], turb)]
    /\ UNCHANGED <<handState, lastResults, audioCalls, surface, vortexAngle, connections, initCalls>>
    /\ UNCHANGED sessionVars

\* p.random(p.width), p.random(p.height): positions inside the surface,
\* among them the corner and points next to each edge
LiquidStarts ==
    {<<0, 0>>, <<10, 75>>, <<SurfaceWidth - 1, SurfaceHeight - 1>>, <<100, 10>>}

\* p.random(6, 15)
LiquidMaxSpeeds == {600, 1499}

\* p.setup with genre JAZZ, one particle of the population followed
InitLiquid ==
    /\ SessionRunning("JAZZ")
    /\ OverlayIdle
    /\ HandsIdle
    /\ surface = <<SurfaceWidth, SurfaceHeight>>
    /\ frameCount = 0
    /\ vortexAngle = 0
    /\ connections = <<>>
    /\ initCalls = 1
    /\ \E st \in LiquidStarts, ms \in LiquidMaxSpeeds :
          particles = <<NewLiquidParticle(st[1], st[2], ms)>>

NextLiquid == DrawLiquid

SpecLiquid == InitLiquid /\ [][NextLiquid]_vars

-----------------------------------------------------------------------------
(* Claims: Liquid *)

NoHandDetected == handState.left = Null /\ handState.right = Null

\* C6 as stated: with no hand detected every particle stays inside the
\* half-open surface [0, width) x [0, height)
C6_InsideHalfOpen ==
    NoHandDetected =>
        \A i \in DOMAIN particles :
            /\ 0 <= particles[i].pos[1] /\ particles[i].pos[1] < surface[1]
            /\ 0 <= particles[i].pos[2] /\ particles[i].pos[2] < surface[2]

\* C6 amended: with no hand detected every particle stays inside the closed
\* surface [0, width] x [0, height]; the upper bound is reached, a particle
\* that leaves on the low side being placed at width (height)
C6_InsideClosed ==
    NoHandDetected =>
        \A i \in DOMAIN particles :
            /\ 0 <= particles[i].pos[1] /\ particles[i].pos[1] <= surface[1]
            /\ 0 <= particles[i].pos[2] /\ particles[i].pos[2] <= surface[2]

C6_Witness ==
    /\ NoHandDetected
    /\ frameCount >= 2
    /\ particles[1].pos[1] = surface[1]
    /\ particles[1].prevPos[1] = surface[1]

-----------------------------------------------------------------------------
(* onHandResults / getHandOpenness.  Landmark coordinates and squeeze are  *)
(* in 1/1000.  A hand of a result is [label, n, wrist, tips]: its side     *)
(* label, its number of landmarks, landmark 0 and landmarks 8, 12, 16, 20. *)

Clamp01NoUpper(o) == IF o < 0 THEN 0 ELSE o

\* Math.max(0, Math.min(1, openness))
Clamp01(o) == IF o < 0 THEN 0 ELSE IF o > 1000 THEN 1000 ELSE o

\* Math.sqrt(Math.pow(tip.x - wrist.x, 2) + Math.pow(tip.y - wrist.y, 2))
TipDist(tip, wrist) == Mag(VSub(tip, wrist))

\* totalDist over the four fingertips
TotalDist(h) ==
    TipDist(h.tips[1], h.wrist) + TipDist(h.tips[2], h.wrist)
        + TipDist(h.tips[3], h.wrist) + TipDist(h.tips[4], h.wrist)

\* openness = (avgDist - 0.15) / 0.25 with avgDist = totalDist / 4
Openness(total) == TDiv((total - 4 * 150) * 1000, 4 * 250)

\* getHandOpenness(landmarks)
getHandOpenness(h) ==
    IF h.n < 21 THEN 0 ELSE Clamp01(Openness(TotalDist(h)))

\* coords = {x: 1 - tip.x, y: tip.y} of landmark 8
MirrorTip(h) == <<1000 - h.tips[1][1], h.tips[1][2]>>

RECURSIVE FoldHands(_, _, _)
\* the for loop over results.multiHandLandmarks.entries()
FoldHands(hs, i, acc) ==
    IF i > Len(hs) THEN acc
    ELSE LET h       == hs[i]
             squeeze == 1000 - getHandOpenness(h)
         IN  FoldHands(hs, i + 1,
                 IF h.label = "Right"
                 THEN [acc EXCEPT !.right = MirrorTip(h), !.rightSqueeze = squeeze]
                 ELSE [acc EXCEPT !.left = MirrorTip(h), !.leftSqueeze = squeeze])

MapResultsCarryOver(res) ==
    IF res.defined THEN FoldHands(res.hands, 1, handState) ELSE handState

\* the hand state onHandResults builds
MapResults(res) ==
    IF res.defined THEN FoldHands(res.hands, 1, NoHands) ELSE NoHands

AudioUpdatesRightOnly(hs) ==
    IF hs.right # Null
    THEN <<[hand |-> "Right", y |-> hs.right[2], x |-> hs.right[1],
            present |-> TRUE, squeeze |-> hs.rightSqueeze]>>
    ELSE <<>>

\* "Pass data to Audio Engine": right first, then left, present hands only
AudioUpdates(hs) ==
    (IF hs.right # Null
     THEN <<[hand |-> "Right", y |-> hs.right[2], x |-> hs.right[1],
             present |-> TRUE, squeeze |-> hs.rightSqueeze]>>
     ELSE <<>>)
    \o
    (IF hs.left # Null
     THEN <<[hand |-> "Left", y |-> hs.left[2], x |-> hs.left[1],
             present |-> TRUE, squeeze |-> hs.leftSqueeze]>>
     ELSE <<>>)

\* a hand whose four fingertips lie at distance r straight above the wrist
StraightHand(label, r) ==
    [label |-> label, n |-> 21, wrist |-> <<400, 300 + r>>,
     tips |-> <<<<400, 300>>, <<400, 300>>, <<400, 300>>, <<400, 300>>>>]

\* fingertips at distances 500, 150, 200, 250 from the wrist: mean 0.275
SpreadHand(label) ==
    [label |-> label, n |-> 21, wrist |-> <<400, 700>>,
     tips |-> <<<<700, 300>>, <<400, 550>>, <<400, 500>>, <<650, 700>>>>]

\* a landmark list shorter than 21
ShortHand(label) ==
    [StraightHand(label, 300) EXCEPT !.n = 20]

Labels == {"Left", "Right"}

\* hands reported alone
DetectedHands ==
    UNION {{StraightHand(l, 100), StraightHand(l, 150), StraightHand(l, 275),
            StraightHand(l, 400), StraightHand(l, 600), SpreadHand(l),
            ShortHand(l)} : l \in Labels}

\* hands reported two at a time
PairedHands ==
    UNION {{StraightHand(l, 150), StraightHand(l, 400), SpreadHand(l)} : l \in Labels}

\* what the tracker may report: no multiHandLandmarks, or 0, 1 or 2 hands
HandResults ==
    {[defined |-> FALSE, hands |-> <<>>], [defined |-> TRUE, hands |-> <<>>]}
    \cup {[defined |-> TRUE, hands |-> <<h>>] : h \in DetectedHands}
    \cup {[defined |-> TRUE, hands |-> <<h1, h2>>] : h1, h2 \in PairedHands}

\* onHandResults(results)
onHandResults(res) ==
    /\ lastResults' = res
    /\ LET hs == MapResults(res)
       IN  handState' = hs /\ audioCalls' = AudioUpdates(hs)
    /\ UNCHANGED <<prevLeftHand, prevRightHand>>
    /\ UNCHANGED <<sessionVars, overlayVars, particleVars>>

\* p.draw with no particle followed: hand velocities, overlay
DrawHands ==
    /\ UNCHANGED <<sessionVars, particleVars>>
    /\ StorePrevHands
    /\ DrawOverlay
    /\ UNCHANGED <<handState, lastResults, audioCalls>>

InitHands ==
    /\ SessionRunning("JAZZ")
    /\ OverlayIdle
    /\ HandsIdle
    /\ particles = <<>>
    /\ surface = <<SurfaceWidth, SurfaceHeight>>
    /\ frameCount = 0
    /\ vortexAngle = 0
    /\ connections = <<>>
    /\ initCalls = 1

NextHands ==
    \/ \E res \in HandResults : onHandResults(res)
    \/ DrawHands

SpecHands == InitHands /\ [][NextHands]_vars

-----------------------------------------------------------------------------
(* Claims: hand signal mapper *)

\* the hands of the last result that carry a side label, in order
OfSide(label) ==
    SelectSeq(lastResults.hands, LAMBDA h : h.label = label)

\* 1 - clamp((d - 0.15) / 0.25, 0, 1) for a mean distance of d4 / 4
SqueezeOf(d4) ==
    1000 - (IF d4 <= 600 THEN 0 ELSE IF d4 >= 1600 THEN 1000 ELSE d4 - 600)

SideSqueeze(label) ==
    IF label = "Right" THEN handState.rightSqueeze ELSE handState.leftSqueeze

\* C9: the squeeze stored for a detected hand is 1 - clamp((d - 0.15) / 0.25)
\* of its mean wrist-to-fingertip distance d: within [0, 1], 1.0 at
\* d = 0.15, 0.5 at d = 0.275, 0.0 at d = 0.40, and non-increasing in d
C9_Squeeze ==
    /\ \A l \in Labels :
          LET hs == OfSide(l)
          IN  (hs # <<>> /\ hs[Len(hs)].n >= 21) =>
                 LET d4 == TotalDist(hs[Len(hs)])
                 IN  /\ SideSqueeze(l) = SqueezeOf(d4)
                     /\ SideSqueeze(l) \in 0..1000
                     /\ d4 = 4 * 150 => SideSqueeze(l) = 1000
                     /\ d4 = 4 * 275 => SideSqueeze(l) = 500
                     /\ d4 = 4 * 400 => SideSqueeze(l) = 0
    /\ LET ls == OfSide("Left")
           rs == OfSide("Right")
       IN  (ls # <<>> /\ rs # <<>> /\ ls[Len(ls)].n >= 21 /\ rs[Len(rs)].n >= 21
              /\ TotalDist(ls[Len(ls)]) <= TotalDist(rs[Len(rs)]))
           => handState.leftSqueeze >= handState.rightSqueeze

C9_Witness ==
    /\ Len(lastResults.hands) = 2
    /\ lastResults.hands[1] = SpreadHand("Left")
    /\ lastResults.hands[2] = StraightHand("Right", 400)
    /\ handState.leftSqueeze = 500
    /\ handState.rightSqueeze = 0

-----------------------------------------------------------------------------
(* VortexParticle.  Depth z and speed are in 1/100; spawns counts the      *)
(* respawn calls made on the particle, heldAtMin the updates that left its *)
(* depth exactly at the threshold.                                         *)

\* the values one respawn draws: x in [-width, width), y in [-height,
\* height), z in [1000, 2000), oX, oY in [-1, 1), speed in [10, 30)
VortexDraws ==
    {[x |-> -SurfaceWidth, y |-> SurfaceHeight - 1, z |-> 100000,
      oX |-> -1000, oY |-> 999, speed |-> 1650],
     [x |-> SurfaceWidth - 1, y |-> -SurfaceHeight, z |-> 199999,
      oX |-> 0, oY |-> -1000, speed |-> 2999]}

\* p.random(100, 2000) of the constructor
VortexStartDepths == {10000, 10100}

RespawnShallow(pt, d) ==
    [pt EXCEPT !.x = d.x, !.y = d.y, !.z = d.z \div 10, !.oX = d.oX, !.oY = d.oY,
               !.speed = d.speed, !.spawns = @ + 1]

\* respawn(p)
Respawn(pt, d) ==
    [pt EXCEPT !.x = d.x, !.y = d.y, !.z = d.z, !.oX = d.oX, !.oY = d.oY,
               !.speed = d.speed, !.spawns = @ + 1]

\* new VortexParticle(p): respawn, then z = p.random(100, 2000)
NewVortexParticle(d, z0) ==
    [Respawn([x |-> 0, y |-> 0, z |-> 0, oX |-> 0, oY |-> 0, speed |-> 0,
              spawns |-> 0, heldAtMin |-> 0], d) EXCEPT !.z = z0]

\* beatFlashRef.current * 50
BeatBoost(flash) == TDiv(flash, FlashScale \div 5000)

\* VortexParticle.update: the depth falls by speed plus beat boost; below
\* the threshold 1 the particle is respawned
VortexUpdate(pt, flash, d) ==
    LET z1 == pt.z - (pt.speed + BeatBoost(flash))
    IN  IF z1 < 100
        THEN Respawn([pt EXCEPT !.z = z1], d)
        ELSE [pt EXCEPT !.z = z1,
                        !.heldAtMin = IF z1 = 100 THEN @ + 1 ELSE @]

\* twist * 0.01, with twist 0.05 while a hand is present and 0.02 otherwise
Twist(hands) ==
    IF hands.right # Null \/ hands.left # Null THEN 5 ELSE 2

\* p.draw with genre FUNK: drawVortex updates every particle, each update
\* advancing the shared twist
DrawVortex ==
    /\ frameCount < MaxVortexTicks
    /\ frameCount' = frameCount + 1
    /\ StorePrevHands
    /\ DrawOverlay
    /\ \E ds \in [DOMAIN particles -> VortexDraws] :
          particles' = [i \in DOMAIN particles |->
                           VortexUpdate(particles[i], DrawFlash(beatFlash), ds[i])]
    /\ vortexAngle' = vortexAngle + Len(particles) * Twist(handState)
    /\ UNCHANGED <<handState, lastResults, audioCalls, surface, connections, initCalls>>
    /\ UNCHANGED sessionVars

\* p.setup with genre FUNK, one particle of the population followed
InitVortex ==
    /\ SessionRunning("FUNK")
    /\ OverlayIdle
    /\ HandsIdle
    /\ surface = <<SurfaceWidth, SurfaceHeight>>
    /\ frameCount = 0
    /\ vortexAngle = 0
    /\ connections = <<>>
    /\ initCalls = 1
    /\ \E d \in VortexDraws, z0 \in VortexStartDepths :
          particles = <<NewVortexParticle(d, z0)>>

NextVortex ==
    \/ DrawVortex
    \/ Beat

SpecVortex == InitVortex /\ [][NextVortex]_vars

-----------------------------------------------------------------------------
(* Claims: Vortex *)

\* C7: no update leaves a particle below the depth threshold 1 (it is
\* respawned in that update); a particle left exactly at the threshold is
\* respawned by the next update; every respawn draws a depth in the far
\* range [1000, 2000), a planar offset within the surface ranges and a
\* speed in [10, 30)
C7_Respawn ==
    [][\A i \in DOMAIN particles :
          LET a == particles[i]
              b == particles'[i]
          IN  /\ b.z >= 100
              /\ (a.z <= 100 /\ frameCount' # frameCount) => b.spawns = a.spawns + 1
              /\ b.spawns # a.spawns =>
                    /\ b.spawns = a.spawns + 1
                    /\ b.z >= 100000 /\ b.z < 200000
                    /\ b.x >= -surface[1] /\ b.x < surface[1]
                    /\ b.y >= -surface[2] /\ b.y < surface[2]
                    /\ b.speed >= 1000 /\ b.speed < 3000]_vars

C7_Witness ==
    /\ particles[1].heldAtMin = 1
    /\ particles[1].spawns = 2
    /\ particles[1].z >= 100000

-----------------------------------------------------------------------------
(* NeuralNode and drawNeuralGrid.  Positions, velocities and distances are *)
(* in 1/100 px, alpha in 1/100, id in 1/1000.                              *)

\* const maxDist = 150
MaxDist == 15000

\* the glitch radius of NeuralNode.update
GlitchDist == 15000

\* p.dist, rounded down to the unit
Dist(a, b) == Mag(VSub(a, b))

\* new NeuralNode(p) with the values its constructor drew
NewNeuralNode(pos, vel, baseSize, id) ==
    [pos |-> pos, vel |-> vel, baseSize |-> baseSize, id |-> id]

\* checkGlitch(h)
CheckGlitch(pos, h) ==
    h # Null /\ Dist(pos, HandVec(h)) < GlitchDist

\* NeuralNode.update: move, reverse the velocity component that left the
\* surface, shake by the drawn jitter while a hand is near
NeuralUpdate(n, hands, jit) ==
    LET pos1 == VAdd(n.pos, n.vel)
        vx   == IF pos1[1] < 0 \/ pos1[1] > surface[1] THEN -n.vel[1] ELSE n.vel[1]
        vy   == IF pos1[2] < 0 \/ pos1[2] > surface[2] THEN -n.vel[2] ELSE n.vel[2]
        isGlitching == CheckGlitch(pos1, hands.left) \/ CheckGlitch(pos1, hands.right)
    IN  [n EXCEPT !.pos = IF isGlitching THEN VAdd(pos1, jit) ELSE pos1,
                  !.vel = <<vx, vy>>]

WithinReachInclusive(d) == d <= MaxDist

\* if (d < maxDist)
WithinReach(d) == d < MaxDist

\* the stroke and line of one connection, then its packet ellipse
ConnectionCalls(i, j, d) ==
    <<[op |-> "line", a |-> i, b |-> j, alpha |-> Map(d, 0, MaxDist, 8000, 0)],
      [op |-> "packet", a |-> i, b |-> j, alpha |-> 10000]>>

\* for (let j = ...; j < nodes.length; j++)
RECURSIVE ConnectInner(_, _, _)
ConnectInner(nodes, i, j) ==
    IF j > Len(nodes) THEN <<>>
    ELSE LET d == Dist(nodes[i].pos, nodes[j].pos)
         IN  (IF WithinReach(d) THEN ConnectionCalls(i, j, d) ELSE <<>>)
                 \o ConnectInner(nodes, i, j + 1)

\* for (let i = 0; i < nodes.length; i++) with j starting at i + 1
RECURSIVE ConnectOuter(_, _)
ConnectOuter(nodes, i) ==
    IF i > Len(nodes) THEN <<>>
    ELSE ConnectInner(nodes, i, i + 1) \o ConnectOuter(nodes, i + 1)

\* p.random(-5, 5) for x and for y
NeuralJitters == {<<-500, 499>>, <<499, -500>>}

\* node populations at setup: two coincident nodes, a third at exactly
\* maxDist from them along x, a fourth at exactly maxDist along a diagonal
NeuralLayouts ==
    {<<NewNeuralNode(<<1000, 1000>>, <<60, 80>>, 400, 100),
       NewNeuralNode(<<1000, 1000>>, <<60, 80>>, 999, 900),
       NewNeuralNode(<<16000, 1000>>, <<60, 80>>, 700, 500),
       NewNeuralNode(<<10000, 13000>>, <<60, 80>>, 700, 0)>>,
     <<NewNeuralNode(<<0, 0>>, <<-30, -40>>, 400, 100),
       NewNeuralNode(<<14999, 0>>, <<0, 149>>, 999, 900),
       NewNeuralNode(<<NeuralWidth - 50, NeuralHeight - 50>>, <<60, 80>>, 700, 500),
       NewNeuralNode(<<NeuralWidth - 9000, NeuralHeight - 12100>>, <<0, -50>>, 700, 0)>>}

\* the hand positions held by handStateRef during the draws
NeuralHands ==
    {NoHands, [NoHands EXCEPT !.left = <<900, 100>>],
     [NoHands EXCEPT !.right = <<50, 50>>]}

\* p.draw with genre ELECTRONIC: drawNeuralGrid updates and shows every
\* node, then draws the connections
DrawNeural ==
    /\ frameCount < MaxNeuralTicks
    /\ frameCount' = frameCount + 1
    /\ StorePrevHands
    /\ DrawOverlay
    /\ \E jits \in [DOMAIN particles -> NeuralJitters] :
          particles' = [i \in DOMAIN particles |->
                           NeuralUpdate(particles[i], handState, jits[i])]
    /\ connections' = ConnectOuter(particles', 1)
    /\ UNCHANGED <<handState, lastResults, audioCalls, surface, vortexAngle, initCalls>>
    /\ UNCHANGED sessionVars

\* p.setup with genre ELECTRONIC, a few nodes of the population followed
InitNeural ==
    /\ SessionRunning("ELECTRONIC")
    /\ OverlayIdle
    /\ handState \in NeuralHands
    /\ prevLeftHand = Null
    /\ prevRightHand = Null
    /\ lastResults = [defined |-> FALSE, hands |-> <<>>]
    /\ audioCalls = <<>>
    /\ surface = <<NeuralWidth, NeuralHeight>>
    /\ frameCount = 0
    /\ vortexAngle = 0
    /\ connections = <<>>
    /\ initCalls = 1
    /\ particles \in NeuralLayouts

NextNeural ==
    \/ DrawNeural
    \/ Beat

SpecNeural == InitNeural /\ [][NextNeural]_vars

-----------------------------------------------------------------------------
(* Claims: Neural grid *)

\* squared distance of nodes i and j
PairDist2(i, j) ==
    LET v == VSub(particles[i].pos, particles[j].pos)
    IN  v[1] * v[1] + v[2] * v[2]

\* the calls of one kind drawn for the unordered pair {i, j}
CallsFor(kind, i, j) ==
    {k \in DOMAIN connections :
        /\ connections[k].op = kind
        /\ {connections[k].a, connections[k].b} = {i, j}}

\* C8: after a draw, every unordered pair of distinct nodes at distance d
\* has exactly one line and one packet dot if d < 150 and none if d >= 150;
\* no call joins a node to itself; the line's alpha is 80 - 80 * d / 150
\* (to the unit), 80 at d = 0, and never grows with d
C8_Connections ==
    frameCount > 0 =>
       /\ \A i, j \in DOMAIN particles :
             i < j =>
                LET n == IF PairDist2(i, j) < MaxDist * MaxDist THEN 1 ELSE 0
                IN  /\ Cardinality(CallsFor("line", i, j)) = n
                    /\ Cardinality(CallsFor("packet", i, j)) = n
       /\ \A k \in DOMAIN connections :
             LET c == connections[k]
                 d == Dist(particles[c.a].pos, particles[c.b].pos)
             IN  /\ c.a # c.b
                 /\ c.op = "line" =>
                       /\ c.alpha * MaxDist >= 8000 * (MaxDist - d)
                       /\ c.alpha * MaxDist < 8000 * (MaxDist - d) + MaxDist
                       /\ d = 0 => c.alpha = 8000
                       /\ c.alpha > 0
       /\ \A k, l \in DOMAIN connections :
             LET c == connections[k]
                 e == connections[l]
             IN  (/\ c.op = "line" /\ e.op = "line"
                  /\ PairDist2(c.a, c.b) <= PairDist2(e.a, e.b))
                    => c.alpha >= e.alpha

C8_Witness ==
    /\ frameCount > 0
    /\ \E i, j \in DOMAIN particles :
          i < j /\ PairDist2(i, j) = 0 /\ CallsFor("line", i, j) # {}
    /\ \E i, j \in DOMAIN particles :
          i < j /\ PairDist2(i, j) = MaxDist * MaxDist /\ CallsFor("line", i, j) = {}
    /\ \E k \in DOMAIN connections :
          connections[k].op = "line" /\ connections[k].alpha < 8000

-----------------------------------------------------------------------------
(* The particle array: p.setup, initParticles, p.windowResized and the     *)
(* genre dispatch of p.draw.  A particle is followed by its class, the     *)
(* initParticles call that created it and the updates it has received.     *)

\* count = 350 / 300 / 80
LiquidCount == 350
VortexCount == 300
NeuralCount == 80

ParticleCount(genre) ==
    IF genre = "JAZZ" THEN LiquidCount
    ELSE IF genre = "FUNK" THEN VortexCount
    ELSE IF genre = "ELECTRONIC" THEN NeuralCount
    ELSE 0

\* the class pushed for the genre
ParticleClass(genre) ==
    IF genre = "JAZZ" THEN "LiquidParticle"
    ELSE IF genre = "FUNK" THEN "VortexParticle"
    ELSE "NeuralNode"

\* the array after count pushes onto arr
Pushed(arr, genre, call) ==
    arr \o [i \in 1..ParticleCount(genre) |->
               [class |-> ParticleClass(genre), madeBy |-> call, updates |-> 0]]

initParticlesKeeping(old, genre, call) == Pushed(old, genre, call)

\* initParticles: particles = [], then count pushes
initParticles(old, genre, call) == Pushed(<<>>, genre, call)

\* p.windowWidth, p.windowHeight
WindowSizes == {<<SurfaceWidth, SurfaceHeight>>, <<NeuralWidth, NeuralHeight>>}

\* p.setup: createCanvas, initParticles
setup ==
    /\ initCalls = 0
    /\ \E size \in WindowSizes : surface' = size
    /\ initCalls' = 1
    /\ particles' = initParticles(particles, currentGenre, 1)
    /\ UNCHANGED <<frameCount, vortexAngle, connections>>
    /\ UNCHANGED <<sessionVars, overlayVars, handVars>>

\* p.windowResized: resizeCanvas, initParticles
windowResized ==
    /\ initCalls >= 1
    /\ initCalls <= MaxResizes
    /\ \E size \in WindowSizes : surface' = size
    /\ initCalls' = initCalls + 1
    /\ particles' = initParticles(particles, currentGenre, initCalls + 1)
    /\ UNCHANGED <<frameCount, vortexAngle, connections>>
    /\ UNCHANGED <<sessionVars, overlayVars, handVars>>

\* p.draw: the genre's draw function runs update on every element of the
\* array with forEach
DrawParticles ==
    /\ initCalls >= 1
    /\ frameCount < MaxParticleTicks
    /\ frameCount' = frameCount + 1
    /\ StorePrevHands
    /\ DrawOverlay
    /\ particles' = [i \in DOMAIN particles |->
                        [particles[i] EXCEPT !.updates = @ + 1]]
    /\ UNCHANGED <<handState, lastResults, audioCalls, surface, vortexAngle,
                   connections, initCalls>>
    /\ UNCHANGED sessionVars

\* the sketch of a running session before p5 has called setup
InitParticles ==
    /\ \E genre \in GameGenre : SessionRunning(genre)
    /\ SketchIdle

NextParticles ==
    \/ setup
    \/ windowResized
    \/ DrawParticles
    \/ Beat

SpecParticles == InitParticles /\ [][NextParticles]_vars

-----------------------------------------------------------------------------
(* Claims: particle population *)

\* C10: once setup has run, the array always holds exactly the genre's
\* count (350 Liquid, 300 Vortex, 80 Neural) of particles of the genre's
\* class, all created by the latest initParticles call (a resize keeps no
\* older particle), and a draw neither adds nor removes a particle
C10_Population ==
    /\ [](initCalls >= 1 =>
            /\ Len(particles) = (CASE currentGenre = "JAZZ" -> 350
                                   [] currentGenre = "FUNK" -> 300
                                   [] currentGenre = "ELECTRONIC" -> 80)
            /\ \A i \in DOMAIN particles :
                  /\ particles[i].madeBy = initCalls
                  /\ particles[i].class =
                        (CASE currentGenre = "JAZZ" -> "LiquidParticle"
                           [] currentGenre = "FUNK" -> "VortexParticle"
                           [] currentGenre = "ELECTRONIC" -> "NeuralNode"))
    /\ [][frameCount' # frameCount =>
            /\ Len(particles') = Len(particles)
            /\ \A i \in DOMAIN particles :
                  particles'[i].madeBy = particles[i].madeBy]_vars

C10_Witness ==
    /\ initCalls = 3
    /\ frameCount >= 2
    /\ Len(particles) = 350
    /\ particles[350].updates = 1
    /\ particles[350].madeBy = 3

-----------------------------------------------------------------------------
(* Claims: audio hand updates *)

\* the audio update calls among the statements of the last draw
DrawAudioSteps(name) ==
    {k \in DOMAIN drawLog.steps : drawLog.steps[k] = name}

\* the audio update calls the last tracker result made for one side
CallsOfSide(side) ==
    {k \in DOMAIN audioCalls : audioCalls[k].hand = side}

SidePos(side) ==
    IF side = "Right" THEN handState.right ELSE handState.left

\* C11 as stated: every render tick calls the audio hand update once for
\* each hand present in the hand state it reads, and not for an absent one
C11_AudioPerTick ==
    drawLog.ran =>
       /\ Cardinality(DrawAudioSteps("updateLeftHand")) =
             (IF drawLog.hands[1] # Null THEN 1 ELSE 0)
       /\ Cardinality(DrawAudioSteps("updateRightHand")) =
             (IF drawLog.hands[2] # Null THEN 1 ELSE 0)

\* C11 amended: the audio hand update is called by the tracker result
\* callback, once for each hand present in the hand state that result
\* produced, with (y, x, true, squeeze) of that hand, and not for an absent
\* hand; a render tick makes no audio call
C11_AudioPerResult ==
    /\ \A side \in {"Left", "Right"} :
          /\ Cardinality(CallsOfSide(side)) = (IF SidePos(side) # Null THEN 1 ELSE 0)
          /\ \A k \in CallsOfSide(side) :
                /\ audioCalls[k].y = SidePos(side)[2]
                /\ audioCalls[k].x = SidePos(side)[1]
                /\ audioCalls[k].present
                /\ audioCalls[k].squeeze = SideSqueeze(side)
    /\ \A k \in DOMAIN audioCalls : audioCalls[k].hand \in {"Left", "Right"}
    /\ DrawAudioSteps("updateLeftHand") = {}
    /\ DrawAudioSteps("updateRightHand") = {}

C11_Witness ==
    /\ drawLog.ran
    /\ drawLog.hands[1] # Null
    /\ drawLog.hands[2] # Null
    /\ Len(audioCalls) = 2
    /\ handState.left # Null
    /\ handState.right # Null

-----------------------------------------------------------------------------
(* Claims: hand state replacement *)

\* C12: the hand state is the last tracker result and nothing else: a side
\* that result did not report is null with squeeze 0, whatever it held
\* before; a reported side holds the mirrored index fingertip (1 - x, y) of
\* the hand the result reported for it; the pinch flags are false; this
\* for results without a hand list and with zero, one or two hands
C12_FreshHandState ==
    /\ \A l \in Labels :
          LET hs == OfSide(l)
          IN  IF ~lastResults.defined \/ hs = <<>>
              THEN SidePos(l) = Null /\ SideSqueeze(l) = 0
              ELSE LET tip == hs[Len(hs)].tips[1]
                   IN  /\ SidePos(l)[1] = 1000 - tip[1]
                       /\ SidePos(l)[2] = tip[2]
    /\ ~handState.isLeftPinching
    /\ ~handState.isRightPinching

C12_Witness ==
    /\ drawLog.ran
    /\ drawLog.hands[1] # Null
    /\ lastResults.defined
    /\ Len(lastResults.hands) = 1
    /\ lastResults.hands[1].label = "Right"
    /\ handState.left = Null
    /\ handState.leftSqueeze = 0
    /\ handState.right = <<300, 300>>

-----------------------------------------------------------------------------
(* Claims: order of the steps of one render tick *)

\* position of a statement in the last draw, 0 if it did not run
Pos(name) ==
    IF \E k \in DOMAIN drawLog.steps : drawLog.steps[k] = name
    THEN CHOOSE k \in DOMAIN drawLog.steps : drawLog.steps[k] = name
    ELSE 0

\* C13 as stated: hand velocity and previous positions, then the flash
\* update, then the fill that reads the flash, then the triggers, then the
\* genre system, then the hue
C13_StatedOrder ==
    drawLog.ran =>
       /\ 0 < Pos("handVelocity")
       /\ Pos("handVelocity") < Pos("storePrev")
       /\ Pos("storePrev") < Pos("flashUpdate")
       /\ Pos("flashUpdate") < Pos("fillColor")
       /\ Pos("fillColor") < Pos("rect")
       /\ Pos("rect") < Pos("triggers")
       /\ Pos("triggers") < Pos("genre")
       /\ Pos("genre") < Pos("globalHue")

\* C13 amended: hand velocity and previous positions, then the fill colour
\* read from the flash, then the flash decay, then the background rect,
\* then the hue, then the triggers, then the genre system; so the fill of
\* a tick uses the flash as it was before this tick's decay, and the genre
\* system works with the hue of this tick's frame count
C13_CodeOrder ==
    /\ [](drawLog.ran =>
            /\ 0 < Pos("handVelocity")
            /\ Pos("handVelocity") < Pos("storePrev")
            /\ Pos("storePrev") < Pos("fillColor")
            /\ Pos("fillColor") < Pos("flashUpdate")
            /\ Pos("flashUpdate") < Pos("rect")
            /\ Pos("rect") < Pos("globalHue")
            /\ Pos("globalHue") < Pos("triggers")
            /\ Pos("triggers") < Pos("genre"))
    /\ [][frameCount' # frameCount =>
            /\ drawLog'.fill = (IF beatFlash > FlashScale \div 100 THEN beatFlash ELSE 0)
            /\ drawLog'.fill > 0 => beatFlash' = (drawLog'.fill * 9) \div 10
            /\ drawLog'.hue = frameCount' % 3600
            /\ globalHue' = frameCount' % 3600]_vars

C13_Witness ==
    /\ drawLog.ran
    /\ frameCount >= 2
    /\ drawLog.fill = FlashScale
    /\ beatFlash < drawLog.fill
    /\ drawLog.hue = frameCount
    /\ globalHue = frameCount

-----------------------------------------------------------------------------
(* p.draw's hand velocities under changing tracker results *)

\* tracker results that move, drop and bring back each hand
VelocityResults ==
    {[defined |-> FALSE, hands |-> <<>>],
     [defined |-> TRUE, hands |-> <<StraightHand("Left", 150)>>],
     [defined |-> TRUE, hands |-> <<SpreadHand("Left")>>],
     [defined |-> TRUE, hands |-> <<StraightHand("Right", 150)>>],
     [defined |-> TRUE, hands |-> <<SpreadHand("Left"), SpreadHand("Right")>>]}

\* p.draw, counted by p.frameCount, with no particle followed
DrawVelocity ==
    /\ frameCount < MaxVelocityTicks
    /\ frameCount' = frameCount + 1
    /\ StorePrevHands
    /\ DrawOverlay
    /\ UNCHANGED <<handState, lastResults, audioCalls>>
    /\ UNCHANGED <<particles, surface, vortexAngle, connections, initCalls>>
    /\ UNCHANGED sessionVars

NextVelocity ==
    \/ \E res \in VelocityResults : onHandResults(res)
    \/ DrawVelocity

SpecVelocity == InitHands /\ [][NextVelocity]_vars

-----------------------------------------------------------------------------
(* Claims: hand velocity *)

\* a normalized hand position on the surface
OnSurface(h) == <<(h[1] * surface[1]) \div 1000, (h[2] * surface[2]) \div 1000>>

\* C14: the velocity a tick computes for a hand is its position on this
\* tick minus its position on the previous tick when the hand was present
\* on both, and zero otherwise (first tick, hand absent, hand back after
\* an absence)
C14_Velocity ==
    [][frameCount' # frameCount =>
          \A side \in 1..2 :
             LET cur == IF side = 1 THEN handState.left ELSE handState.right
                 old == drawLog.hands[side]
             IN  drawLog'.vels[side] =
                    IF drawLog.ran /\ cur # Null /\ old # Null
                    THEN <<OnSurface(cur)[1] - OnSurface(old)[1],
                           OnSurface(cur)[2] - OnSurface(old)[2]>>
                    ELSE <<0, 0>>]_vars

C14_Witness ==
    /\ frameCount = 3
    /\ drawLog.hands[1] # Null
    /\ drawLog.vels[1] = <<0, 0>>
    /\ drawLog.vels[2] # <<0, 0>>
    /\ prevLeftHand # Null
    /\ prevRightHand # Null

-----------------------------------------------------------------------------
(* LiquidParticle.update next to a moving hand.  The hand is held at      *)
(* (0.3, 0.3) of the surface; two particles lie to its right at the same   *)
(* height; the previous hand position gives the hand its velocity.         *)

\* the tracker results that put the hand(s) there
DragResults ==
    {[defined |-> TRUE, hands |-> <<SpreadHand("Left")>>],
     [defined |-> TRUE, hands |-> <<SpreadHand("Left"), SpreadHand("Right")>>]}

\* the hand on the surface
DragHandAt == <<(300 * DragWidth) \div 1000, (300 * DragHeight) \div 1000>>

\* where the hand was on the previous tick: 6 px, 30 px, 50 px and 3 px away
DragPrevs ==
    {VSub(DragHandAt, <<600, 0>>), VSub(DragHandAt, <<0, 3000>>),
     VSub(DragHandAt, <<-3000, -4000>>), VSub(DragHandAt, <<300, 0>>)}

\* distances of the two particles from the hand
DragStarts ==
    {<<0, 10000>>, <<29000, 35000>>, <<30000, 39999>>, <<10000, 40000>>}

\* p.noise flow forces used here
DragFlows == {<<50, 0>>, <<0, -50>>}

\* p.draw with genre JAZZ: drawEtherealLiquid updates every particle
DrawDrag ==
    /\ frameCount < MaxDragTicks
    /\ frameCount' = frameCount + 1
    /\ StorePrevHands
    /\ DrawOverlay
    /\ \E flows \in [DOMAIN particles -> DragFlows], turb \in Turbulences :
          particles' = [i \in DOMAIN particles |->
                           LiquidUpdate(particles[i], handState, HandVels,
                                        flows[i], turb)]
    /\ UNCHANGED <<handState, lastResults, audioCalls, surface, vortexAngle,
                   connections, initCalls>>
    /\ UNCHANGED sessionVars

\* a running JAZZ session in which the tracker has reported the hand(s)
\* and earlier draws have stored a previous hand position
InitDrag ==
    /\ SessionRunning("JAZZ")
    /\ OverlayIdle
    /\ \E res \in DragResults :
          /\ lastResults = res
          /\ handState = MapResults(res)
          /\ audioCalls = AudioUpdates(MapResults(res))
          /\ prevLeftHand \in DragPrevs
          /\ IF Len(res.hands) = 2 THEN prevRightHand \in DragPrevs
             ELSE prevRightHand = Null
    /\ surface = <<DragWidth, DragHeight>>
    /\ frameCount = 0
    /\ vortexAngle = 0
    /\ connections = <<>>
    /\ initCalls = 1
    /\ \E ds \in DragStarts, ms \in LiquidMaxSpeeds :
          particles = <<NewLiquidParticle(DragHandAt[1] + ds[1], DragHandAt[2], ms),
                        NewLiquidParticle(DragHandAt[1] + ds[2], DragHandAt[2], ms)>>

NextDrag == DrawDrag

SpecDrag == InitDrag /\ [][NextDrag]_vars

-----------------------------------------------------------------------------
(* Claims: drag force *)

\* hand of a side (1 left, 2 right), its velocity, its distance to
\* particle i, all as the draw about to run reads them
HandOf(side) == IF side = 1 THEN handState.left ELSE handState.right

VelOf(side) == IF side = 1 THEN HandVels.left ELSE HandVels.right

DistTo(i, side) == Mag(VSub(HandVec(HandOf(side)), particles[i].pos))

\* the hand of that side drags particle i on this tick
Dragging(i, side) ==
    /\ HandOf(side) # Null
    /\ DistTo(i, side) < 40000
    /\ Mag(VelOf(side)) > 500

Dot(a, b) == a[1] * b[1] + a[2] * b[2]

\* C15: for a particle within 400 px of a present hand moving faster than
\* 5 px per frame, the drag added points along the hand's velocity, is no
\* larger for a particle farther away, and no smaller for a faster hand
C15_DragAligned ==
    [][frameCount' # frameCount =>
          \A i \in DOMAIN particles, side \in 1..2 :
             Dragging(i, side) =>
                LET drag == particles'[i].drag[side]
                IN  /\ Dot(drag, VelOf(side)) >= 0
                    /\ \A j \in DOMAIN particles :
                          (Dragging(j, side) /\ DistTo(i, side) <= DistTo(j, side))
                             => Mag(drag) >= Mag(particles'[j].drag[side])
                    /\ \A other \in 1..2 :
                          (Dragging(i, other)
                             /\ Mag(VelOf(side)) <= Mag(VelOf(other)))
                             => Mag(drag) <= Mag(particles'[i].drag[other])]_vars

-----------------------------------------------------------------------------
(* Claims: entering ERROR *)

\* C16: the app state becomes ERROR only from LOADING or RUNNING; in
\* particular, once the app is back at IDLE and the session's cleanup has
\* run, the rejection of that session's pending tracker start leaves the
\* app state as it is
C16_ErrorOnlyFromSession ==
    [][/\ (appState' = "ERROR" /\ appState # "ERROR")
             => appState \in {"LOADING", "RUNNING"}
       /\ \A s \in Sessions :
             (/\ appState = "IDLE"
              /\ trackers[s].stopCalls >= 1
              /\ trackers[s].startPromise = "pending"
              /\ trackers'[s].startPromise # "pending")
                => appState' = appState]_vars

=============================================================================
